---- MODULE Spec2Model ----
(***************************************************************************)
(* Delivery ledger of iorg-s/delivery_backend: the scan endpoint           *)
(* (scan_delivery), delivery creation, the supervisor adjustment paths and *)
(* the transfer endpoints of src/app/api/v1/endpoints.py, over the tables  *)
(* of src/app/models.py; and the notification registry and the delivery    *)
(* watcher of src/app/notifications.py.                                    *)
(*                                                                         *)
(* Store semantics: one SQLAlchemy session per request (db.py:12,          *)
(* autoflush=False) on PostgreSQL at its default READ COMMITTED level.     *)
(* Every SELECT sees the rows committed so far; an UPDATE writes the       *)
(* absolute value the handler computed; pending changes are flushed by     *)
(* db.commit() (or by an explicit db.flush()).                             *)
(***************************************************************************)
EXTENDS Integers, Sequences, FiniteSets, TLC

VARIABLES
    deliveries,       \* table deliveries: delivery number -> [status, expected_packages, source_id, destination_id]
    delivery_rows,    \* table deliveries: delivery number -> number of committed rows that carry it
    scan_counters,    \* table scan_counters (committed rows): <<delivery, stage name>> -> total
    scan_events,      \* table scan_events, in insertion order
    audit_log,        \* table audit_log, in insertion order
    transfer_orders,  \* table transfer_orders, in insertion order
    driver_routes,    \* table driver_routes, today's rows: driver id -> set of warehouse ids
    pc,               \* per request slot: position of the handler running in it
    req,              \* per request slot: the scan request being served
    loc,              \* per request slot: what the handler's session has loaded
    resp,             \* per request slot: HTTP status of the last response (0: none yet)
    hist,             \* history: (delivery, stage, requested count) of every scan answered 200, in commit order
    now,              \* the clock, in ticks
    moysklad,         \* the calls of notify_moysklad: <<delivery number, status>> -> number of calls
    created_at,       \* column deliveries.created_at: delivery number -> tick
    connections,      \* notifications.connections: user id -> list of [ws, role, warehouse_id]
    ws_state,         \* per WebSocket: "new", "open", "broken" (peer gone, sends raise) or "closed"
    sent,             \* per WebSocket: the deliveries whose delivery_created event it was sent, in order
    watcher_pc,       \* _watcher_loop: "poll", "fanout", "sleep", "backoff" (the sleep after a failed poll) or "stopped"
    last_check,       \* _watcher_loop's watermark
    new_rows,         \* _watcher_loop's rows of the current cycle
    next_row          \* position in new_rows of the next row to fan out

ledger == <<deliveries, delivery_rows, scan_counters, scan_events, audit_log, transfer_orders, driver_routes>>

\* the registry, the sockets and the watcher task
notif == <<connections, ws_state, sent, watcher_pc, last_check, new_rows, next_row>>

vars == <<ledger, pc, req, loc, resp, hist, now, moysklad, created_at, notif>>

-----------------------------------------------------------------------------
(* Bounds *)

MaxCount == 2
MaxExpected == 2
MaxAudit == 3
MaxAuditSeq == 3
MaxAuditPair == 4
MaxAuditE2E == 6
MaxClock == 2

Procs == {1, 2}
Numbers == {"D1"}
Warehouses == {"WM", "W1", "W2"}
Counts == (-1)..MaxCount
Sockets == {"ws1", "ws2"}

-----------------------------------------------------------------------------
(* Python values.  A value carries its class; == between two values is     *)
(* PyEq.  models.UserRole, models.ScanStage and models.DeliveryStatus      *)
(* (models.py:13-33) are plain enum.Enum classes: a member equals only the *)
(* same member of the same class, and never a str.  schemas.ScanStage      *)
(* (schemas.py:5-8) is a (str, Enum) class: its members are strings and    *)
(* compare by value with strings, and with nothing else.                   *)
(*                                                                         *)
(* In endpoints.py the name ScanStage is models.ScanStage (lines 12-15;    *)
(* line 17 imports only ScanRequest and TransferCreate from schemas).      *)
(* ScanRequest.stage (schemas.py:13) is a schemas.ScanStage member,        *)
(* ManualScanRequest.stage (endpoints.py:575) a models.ScanStage member,   *)
(* and User.role (models.py:54) a models.UserRole member.                  *)

Str(s) == [cls |-> "str", value |-> s]

SchemaStage(s) == [cls |-> "schemas.ScanStage", value |-> s]

ModelStage(s) == [cls |-> "models.ScanStage", value |-> s]

UserRole(s) == [cls |-> "models.UserRole", value |-> s]

StrClasses == {"str", "schemas.ScanStage"}

PyEq(x, y) ==
    IF x.cls = y.cls THEN x.value = y.value
    ELSE x.cls \in StrClasses /\ y.cls \in StrClasses /\ x.value = y.value

StageNames == {"source_pick", "dest_arrival", "dest_receive"}

\* ScanStage as the name is bound in endpoints.py (import from app.models)
ScanStage(s) == ModelStage(s)

\* what the Enum(ScanStage) column stores for a bound stage value
DbStage(stage) == stage.value

Statuses == {"created", "partial_pick", "picked", "in_transit", "arrived",
             "partial_receive", "received", "redirected"}

Min(a, b) == IF a < b THEN a ELSE b

Max(a, b) == IF a > b THEN a ELSE b

-----------------------------------------------------------------------------
(* Users (rows of table users; authentication is outside the model) *)

Users == {"drv", "mgr", "sup"}

None == "None"

UserRow(u) ==
    CASE u = "drv" -> [id |-> "drv", role |-> UserRole("driver"), warehouse_id |-> None]
      [] u = "mgr" -> [id |-> "mgr", role |-> UserRole("manager"), warehouse_id |-> "W1"]
      [] u = "sup" -> [id |-> "sup", role |-> UserRole("supervisor"), warehouse_id |-> "WM"]

-----------------------------------------------------------------------------
(* Request slots *)

NoReq == [op |-> "none"]

NoLoc == [delivery |-> None, status |-> None, expected |-> 0,
          source |-> None, destination |-> None, total |-> 0, inserted |-> FALSE]

Busy(p) == pc[p] \notin {"idle", "done"}

InFlight == Cardinality({p \in Procs : Busy(p)})

Budget(n) == Len(audit_log) + InFlight < n

\* the request in slot p is answered with code c; its session is closed
Answer(p, c) ==
    /\ pc' = [pc EXCEPT ![p] = "done"]
    /\ req' = [req EXCEPT ![p] = NoReq]
    /\ loc' = [loc EXCEPT ![p] = NoLoc]
    /\ resp' = [resp EXCEPT ![p] = c]

\* some other session holds an uncommitted INSERT of counter row key
InsertPending(p, key) ==
    \E q \in Procs \ {p} :
        /\ Busy(q)
        /\ loc[q].inserted
        /\ <<loc[q].delivery, DbStage(req[q].stage)>> = key

Init ==
    /\ deliveries = <<>>
    /\ delivery_rows = <<>>
    /\ scan_counters = <<>>
    /\ scan_events = <<>>
    /\ audit_log = <<>>
    /\ transfer_orders = <<>>
    /\ driver_routes = [u \in Users |-> {}]
    /\ pc = [p \in Procs |-> "idle"]
    /\ req = [p \in Procs |-> NoReq]
    /\ loc = [p \in Procs |-> NoLoc]
    /\ resp = [p \in Procs |-> 0]
    /\ hist = <<>>
    /\ now = 1
    /\ moysklad = <<>>
    /\ created_at = <<>>
    /\ connections = <<>>
    /\ ws_state = [w \in Sockets |-> [st |-> "new", user_id |-> None]]
    /\ sent = [w \in Sockets |-> <<>>]
    /\ watcher_pc = "poll"
    /\ last_check = 0
    /\ new_rows = <<>>
    /\ next_row = 1

-----------------------------------------------------------------------------
(* scan_delivery, endpoints.py:267-378 *)

ScanRequests ==
    { [op |-> "scan", delivery_number |-> n, stage |-> SchemaStage(s), count |-> c, user |-> u] :
        n \in Numbers, s \in StageNames, c \in Counts, u \in Users }

\* endpoints.py:280-289: the driver's route excludes the delivery
RouteForbidden(user, d) ==
    /\ PyEq(UserRow(user).role, Str("driver"))
    /\ d.source_id \notin driver_routes[user]
    /\ d.destination_id \notin driver_routes[user]

\* endpoints.py:291-302: the stage precondition gate raises 400
GateFails(stage, status) ==
    \/ PyEq(stage, ScanStage("dest_arrival")) /\ status # "picked"
    \/ PyEq(stage, ScanStage("dest_receive"))
         /\ status \notin {"picked", "arrived", "partial_receive"}

\* a scan engine that adds the requested count without capping it
NewTotalUncapped(total, count, expected) == total + count

\* endpoints.py:313
NewTotal(total, count, expected) == Min(total + count, expected)

\* an increment that is not floored at zero
IncrementSigned(total, new_total) == new_total - total

\* endpoints.py:314
Increment(total, new_total) == Max(0, new_total - total)

\* endpoints.py:316-322: the warehouse a ScanEvent is attributed to
ScanWarehouse(user, stage, d) ==
    IF PyEq(UserRow(user).role, Str("manager")) THEN UserRow(user).warehouse_id
    ELSE IF PyEq(stage, ScanStage("source_pick")) THEN d.source
    ELSE d.destination

\* endpoints.py:28-80: the calls of notify_moysklad after one more call for
\* each status of statuses (the request to the external system, made when a
\* token is configured; its failures are printed and go no further)
Notify(delivery_number, statuses) ==
    LET calls == { <<delivery_number, st>> : st \in statuses } IN
    [k \in DOMAIN moysklad \cup calls |->
        (IF k \in DOMAIN moysklad THEN moysklad[k] ELSE 0) + (IF k \in calls THEN 1 ELSE 0)]

\* endpoints.py:338-352: the statuses scan_delivery reports to notify_moysklad
ScanNotifies(stage, new_total, expected, increment) ==
    IF increment > 0 /\ PyEq(stage, ScanStage("source_pick")) /\ ~(new_total < expected)
    THEN {"picked"}
    ELSE IF increment > 0 /\ ~PyEq(stage, ScanStage("source_pick"))
            /\ ~PyEq(stage, ScanStage("dest_arrival"))
            /\ PyEq(stage, ScanStage("dest_receive")) /\ new_total >= expected
    THEN {"received"}
    ELSE {}

\* endpoints.py:622-636: the statuses supervisor_manual_scan reports
ManualNotifies(stage, new_total, expected) ==
    IF PyEq(stage, ScanStage("source_pick")) /\ ~(new_total < expected) THEN {"picked"}
    ELSE IF ~PyEq(stage, ScanStage("source_pick")) /\ ~PyEq(stage, ScanStage("dest_arrival"))
            /\ PyEq(stage, ScanStage("dest_receive")) /\ new_total >= expected
    THEN {"received"}
    ELSE {}

\* endpoints.py:338-356: the status the handler leaves on the delivery object
ScanStatus(stage, status, new_total, expected, increment) ==
    IF increment > 0 THEN
        IF PyEq(stage, ScanStage("source_pick")) THEN
            IF new_total < expected THEN "partial_pick" ELSE "picked"
        ELSE IF PyEq(stage, ScanStage("dest_arrival")) THEN "arrived"
        ELSE IF PyEq(stage, ScanStage("dest_receive")) THEN
            IF new_total >= expected THEN "received" ELSE "partial_receive"
        ELSE status
    ELSE status

CounterKey(p) == <<loc[p].delivery, DbStage(req[p].stage)>>

\* endpoints.py:274-302: load the delivery, check the route and the stage gate
scan_delivery_begin(p, scan) ==
    /\ ~Busy(p)
    /\ IF scan.delivery_number \notin DOMAIN deliveries THEN Answer(p, 404)
       ELSE LET d == deliveries[scan.delivery_number] IN
            IF RouteForbidden(scan.user, d) THEN Answer(p, 403)
            ELSE IF GateFails(scan.stage, d.status) THEN Answer(p, 400)
            ELSE /\ pc' = [pc EXCEPT ![p] = "loaded"]
                 /\ req' = [req EXCEPT ![p] = scan]
                 /\ loc' = [loc EXCEPT ![p] =
                        [delivery |-> scan.delivery_number, status |-> d.status,
                         expected |-> d.expected_packages, source |-> d.source_id,
                         destination |-> d.destination_id, total |-> 0, inserted |-> FALSE]]
                 /\ resp' = [resp EXCEPT ![p] = 0]
    /\ UNCHANGED <<ledger, hist, now, moysklad, created_at, notif>>

\* endpoints.py:304-308: SELECT the (delivery, stage) counter
scan_delivery_load_counter(p) ==
    /\ pc[p] = "loaded"
    /\ IF CounterKey(p) \in DOMAIN scan_counters
       THEN /\ loc' = [loc EXCEPT ![p].total = scan_counters[CounterKey(p)]]
            /\ pc' = [pc EXCEPT ![p] = "counted"]
       ELSE /\ pc' = [pc EXCEPT ![p] = "inserting"]
            /\ loc' = loc
    /\ UNCHANGED <<ledger, req, resp, hist, now, moysklad, created_at, notif>>

\* a write that sets every stage's counter of the delivery
WriteTotalAllStages(key, inserted, old, new_total) ==
    [k \in DOMAIN scan_counters \cup {key} |->
        IF k[1] = key[1] THEN new_total ELSE scan_counters[k]]

\* the value of row key after a session that loaded `old` sets it to new_total:
\* the unit of work emits an UPDATE only for a changed attribute
WriteTotal(key, inserted, old, new_total) ==
    IF inserted THEN [k \in DOMAIN scan_counters \cup {key} |->
                         IF k = key THEN new_total ELSE scan_counters[k]]
    ELSE IF new_total # old /\ key \in DOMAIN scan_counters
         THEN [scan_counters EXCEPT ![key] = new_total]
    ELSE scan_counters

\* a store in which the flush of the new counter row is visible to every
\* session at once and survives the rollback
scan_delivery_insert_counter_autocommit(p) ==
    /\ pc[p] = "inserting"
    /\ ~InsertPending(p, CounterKey(p))
    /\ IF CounterKey(p) \in DOMAIN scan_counters
       THEN Answer(p, 500) /\ UNCHANGED scan_counters
       ELSE /\ loc' = [loc EXCEPT ![p].total = 0, ![p].inserted = TRUE]
            /\ scan_counters' = WriteTotal(CounterKey(p), TRUE, 0, 0)
            /\ pc' = [pc EXCEPT ![p] = "counted"]
            /\ UNCHANGED <<req, resp>>
    /\ UNCHANGED <<deliveries, delivery_rows, scan_events, audit_log, transfer_orders, driver_routes,
                   hist, now, moysklad, created_at, notif>>

\* endpoints.py:309-311: INSERT the missing counter row and flush.  The INSERT
\* waits for an uncommitted INSERT of the same primary key, and raises
\* (IntegrityError, answered 500) when the row has been committed meanwhile.
scan_delivery_insert_counter(p) ==
    /\ pc[p] = "inserting"
    /\ ~InsertPending(p, CounterKey(p))
    /\ IF CounterKey(p) \in DOMAIN scan_counters
       THEN Answer(p, 500)
       ELSE /\ loc' = [loc EXCEPT ![p].total = 0, ![p].inserted = TRUE]
            /\ pc' = [pc EXCEPT ![p] = "counted"]
            /\ UNCHANGED <<req, resp>>
    /\ UNCHANGED <<ledger, hist, now, moysklad, created_at, notif>>

\* endpoints.py:313-366: compute, stage the changes, commit
scan_delivery_commit(p) ==
    /\ pc[p] = "counted"
    /\ LET scan == req[p]
           l == loc[p]
           new_total == NewTotal(l.total, scan.count, l.expected)
           increment == Increment(l.total, new_total)
           status == ScanStatus(scan.stage, l.status, new_total, l.expected, increment)
       IN  /\ scan_counters' = WriteTotal(CounterKey(p), l.inserted, l.total, new_total)
           /\ scan_events' = IF increment > 0
                        THEN Append(scan_events,
                                [delivery_id |-> l.delivery, stage |-> DbStage(scan.stage),
                                 warehouse_id |-> ScanWarehouse(scan.user, scan.stage, l),
                                 count |-> increment])
                        ELSE scan_events
           /\ deliveries' = IF status # l.status
                            THEN [deliveries EXCEPT ![l.delivery].status = status]
                            ELSE deliveries
           /\ audit_log' = Append(audit_log,
                          [event_type |-> "scan", delivery_id |-> l.delivery,
                           details |-> [stage |-> scan.stage.value, count |-> increment]])
           /\ hist' = Append(hist, [delivery |-> l.delivery, stage |-> DbStage(scan.stage),
                                    count |-> scan.count])
           /\ moysklad' = Notify(l.delivery,
                               ScanNotifies(scan.stage, new_total, l.expected, increment))
    /\ Answer(p, 200)
    /\ UNCHANGED <<delivery_rows, transfer_orders, driver_routes, now, created_at, notif>>

\* endpoints.py:366: the store fails the commit; the session is rolled back
scan_delivery_commit_fails(p) ==
    /\ pc[p] = "counted"
    /\ Answer(p, 500)
    /\ UNCHANGED <<ledger, hist, now, moysklad, created_at, notif>>

-----------------------------------------------------------------------------
(* create_delivery, endpoints.py:202-262 *)

Expecteds == 1..MaxExpected

Destinations == {"W2"}

CreateRequests ==
    { [op |-> "create", delivery_number |-> n, expected_packages |-> e,
       destination_id |-> w, user |-> u] :
        n \in Numbers, e \in Expecteds, w \in Destinations, u \in Users }

\* endpoints.py:216-226: one more committed row with delivery_number n
AddRow(n) ==
    [m \in DOMAIN delivery_rows \cup {n} |->
        (IF m \in DOMAIN delivery_rows THEN delivery_rows[m] ELSE 0) + (IF m = n THEN 1 ELSE 0)]

\* the handler run without another request in between
create_delivery(p, payload) ==
    /\ ~Busy(p)
    /\ LET user == UserRow(payload.user) IN
       IF ~(PyEq(user.role, UserRole("manager")) \/ PyEq(user.role, UserRole("supervisor")))
       THEN Answer(p, 403) /\ UNCHANGED <<deliveries, delivery_rows, audit_log, created_at>>
       ELSE IF user.warehouse_id = None
       THEN Answer(p, 400) /\ UNCHANGED <<deliveries, delivery_rows, audit_log, created_at>>
       ELSE IF payload.delivery_number \in DOMAIN deliveries
       THEN Answer(p, 400) /\ UNCHANGED <<deliveries, delivery_rows, audit_log, created_at>>
       ELSE /\ deliveries' =
                [n \in DOMAIN deliveries \cup {payload.delivery_number} |->
                    IF n = payload.delivery_number
                    THEN [status |-> "created",
                          expected_packages |-> payload.expected_packages,
                          source_id |-> user.warehouse_id,
                          destination_id |-> payload.destination_id]
                    ELSE deliveries[n]]
            /\ delivery_rows' = AddRow(payload.delivery_number)
            /\ created_at' =
                [n \in DOMAIN created_at \cup {payload.delivery_number} |->
                    IF n = payload.delivery_number THEN now ELSE created_at[n]]
            /\ audit_log' = Append(audit_log,
                    [event_type |-> "delivery_created", delivery_id |-> payload.delivery_number,
                     details |-> [source |-> user.warehouse_id,
                                  destination |-> payload.destination_id,
                                  expected_packages |-> payload.expected_packages]])
            /\ Answer(p, 200)
    /\ UNCHANGED <<scan_counters, scan_events, transfer_orders, driver_routes, hist, now, moysklad, notif>>

\* The same handler in the steps another request can come between: the
\* checks with the SELECT of the number (endpoints.py:208-216), the INSERT of
\* the row at db.flush() (218-226), and the commit (228-240).

\* some other session holds an uncommitted INSERT of a deliveries row with number n
CreatePending(p, n) ==
    \E q \in Procs \ {p} : pc[q] = "flushed" /\ req[q].delivery_number = n

create_delivery_begin(p, payload) ==
    /\ ~Busy(p)
    /\ LET user == UserRow(payload.user) IN
       IF ~(PyEq(user.role, UserRole("manager")) \/ PyEq(user.role, UserRole("supervisor")))
       THEN Answer(p, 403)
       ELSE IF user.warehouse_id = None
       THEN Answer(p, 400)
       ELSE IF payload.delivery_number \in DOMAIN deliveries
       THEN Answer(p, 400)
       ELSE /\ pc' = [pc EXCEPT ![p] = "creating"]
            /\ req' = [req EXCEPT ![p] = payload]
            /\ loc' = [loc EXCEPT ![p] = NoLoc]
            /\ resp' = [resp EXCEPT ![p] = 0]
    /\ UNCHANGED <<ledger, hist, now, moysklad, created_at, notif>>

\* a table without the unique index on delivery_number: the INSERT neither
\* waits nor fails
create_delivery_insert_unconstrained(p) ==
    /\ pc[p] = "creating"
    /\ pc' = [pc EXCEPT ![p] = "flushed"]
    /\ UNCHANGED <<ledger, req, loc, resp, hist, now, moysklad, created_at, notif>>

\* endpoints.py:218-226 with models.py:62 (unique=True): the INSERT waits for
\* an uncommitted INSERT of the same number, and raises (IntegrityError,
\* answered 500) when a row with the number has been committed meanwhile
create_delivery_insert(p) ==
    /\ pc[p] = "creating"
    /\ ~CreatePending(p, req[p].delivery_number)
    /\ IF req[p].delivery_number \in DOMAIN delivery_rows
       THEN Answer(p, 500)
       ELSE /\ pc' = [pc EXCEPT ![p] = "flushed"]
            /\ UNCHANGED <<req, loc, resp>>
    /\ UNCHANGED <<ledger, hist, now, moysklad, created_at, notif>>

\* endpoints.py:228-240: the row and its audit_log entry are committed
create_delivery_commit(p) ==
    /\ pc[p] = "flushed"
    /\ LET payload == req[p]
           user == UserRow(payload.user)
       IN  /\ deliveries' =
                [n \in DOMAIN deliveries \cup {payload.delivery_number} |->
                    IF n = payload.delivery_number
                    THEN [status |-> "created",
                          expected_packages |-> payload.expected_packages,
                          source_id |-> user.warehouse_id,
                          destination_id |-> payload.destination_id]
                    ELSE deliveries[n]]
           /\ delivery_rows' = AddRow(payload.delivery_number)
           /\ created_at' =
                [n \in DOMAIN created_at \cup {payload.delivery_number} |->
                    IF n = payload.delivery_number THEN now ELSE created_at[n]]
           /\ audit_log' = Append(audit_log,
                    [event_type |-> "delivery_created", delivery_id |-> payload.delivery_number,
                     details |-> [source |-> user.warehouse_id,
                                  destination |-> payload.destination_id,
                                  expected_packages |-> payload.expected_packages]])
    /\ Answer(p, 200)
    /\ UNCHANGED <<scan_counters, scan_events, transfer_orders, driver_routes, hist, now, moysklad, notif>>

\* endpoints.py:239: the store fails the commit; the session is rolled back
create_delivery_commit_fails(p) ==
    /\ pc[p] = "flushed"
    /\ Answer(p, 500)
    /\ UNCHANGED <<ledger, hist, now, moysklad, created_at, notif>>

-----------------------------------------------------------------------------
(* supervisor_manual_scan, endpoints.py:579-654 *)

ManualRequests ==
    { [op |-> "manual_scan", delivery_number |-> n, stage |-> ScanStage(s), count |-> c,
       warehouse_id |-> None, user |-> u] :
        n \in Numbers, s \in StageNames, c \in Counts, u \in Users }

\* endpoints.py:605-607
ManualWarehouse(payload, d) ==
    IF payload.warehouse_id # None THEN payload.warehouse_id
    ELSE IF PyEq(payload.stage, ScanStage("source_pick")) THEN d.source_id
    ELSE d.destination_id

\* endpoints.py:622-636
ManualStatus(stage, status, new_total, expected) ==
    IF PyEq(stage, ScanStage("source_pick")) THEN
        IF new_total < expected THEN "partial_pick" ELSE "picked"
    ELSE IF PyEq(stage, ScanStage("dest_arrival")) THEN "arrived"
    ELSE IF PyEq(stage, ScanStage("dest_receive")) THEN
        IF new_total >= expected THEN "received" ELSE "partial_receive"
    ELSE status

supervisor_manual_scan(p, payload) ==
    /\ ~Busy(p)
    /\ IF ~PyEq(UserRow(payload.user).role, UserRole("supervisor"))
       THEN Answer(p, 403) /\ UNCHANGED <<deliveries, scan_counters, scan_events, audit_log, moysklad>>
       ELSE IF payload.delivery_number \notin DOMAIN deliveries
       THEN Answer(p, 404) /\ UNCHANGED <<deliveries, scan_counters, scan_events, audit_log, moysklad>>
       ELSE LET d == deliveries[payload.delivery_number]
                key == <<payload.delivery_number, DbStage(payload.stage)>>
                missing == key \notin DOMAIN scan_counters
                total == IF missing THEN 0 ELSE scan_counters[key]
                new_total == NewTotal(total, payload.count, d.expected_packages)
                increment == Increment(total, new_total)
            IN  /\ missing => ~InsertPending(p, key)
                /\ scan_counters' = WriteTotal(key, missing, total, new_total)
                /\ scan_events' = IF increment > 0
                             THEN Append(scan_events,
                                    [delivery_id |-> payload.delivery_number,
                                     stage |-> DbStage(payload.stage),
                                     warehouse_id |-> ManualWarehouse(payload, d),
                                     count |-> increment])
                             ELSE scan_events
                /\ deliveries' = [deliveries EXCEPT ![payload.delivery_number].status =
                        ManualStatus(payload.stage, d.status, new_total, d.expected_packages)]
                /\ audit_log' = Append(audit_log,
                        [event_type |-> "manual_scan", delivery_id |-> payload.delivery_number,
                         details |-> [stage |-> payload.stage.value, count |-> increment]])
                /\ moysklad' = Notify(payload.delivery_number,
                        ManualNotifies(payload.stage, new_total, d.expected_packages))
                /\ Answer(p, 200)
    /\ UNCHANGED <<delivery_rows, transfer_orders, driver_routes, hist, now, created_at, notif>>

-----------------------------------------------------------------------------
(* supervisor_update_delivery, endpoints.py:490-540 *)

\* status strings tried in an update: valid members and one that is none
UpdateStatuses == {"created", "received", "bogus"}

\* the fields a SupervisorDeliveryUpdate payload sets (the others are None)
UpdateFields ==
    { [expected_packages |-> e] : e \in Expecteds }
    \cup { [status |-> s] : s \in UpdateStatuses }
    \cup { [expected_packages |-> e, status |-> "bogus"] : e \in Expecteds }

UpdateRequests ==
    { [op |-> "update", delivery_id |-> n, fields |-> f, user |-> u] :
        n \in Numbers, f \in UpdateFields, u \in Users }

Given(f, name) == name \in DOMAIN f

\* endpoints.py:512-524: the delivery object after the assignments
UpdatedDelivery(d, f) ==
    [status |-> IF Given(f, "status") THEN f.status ELSE d.status,
     expected_packages |-> IF Given(f, "expected_packages")
                           THEN f.expected_packages ELSE d.expected_packages,
     source_id |-> IF Given(f, "source_id") THEN f.source_id ELSE d.source_id,
     destination_id |-> IF Given(f, "destination_id")
                        THEN f.destination_id ELSE d.destination_id]

supervisor_update_delivery(p, payload) ==
    /\ ~Busy(p)
    /\ IF ~PyEq(UserRow(payload.user).role, UserRole("supervisor"))
       THEN Answer(p, 403) /\ UNCHANGED <<deliveries, audit_log>>
       ELSE IF payload.delivery_id \notin DOMAIN deliveries
       THEN Answer(p, 404) /\ UNCHANGED <<deliveries, audit_log>>
       ELSE IF Given(payload.fields, "status") /\ payload.fields.status \notin Statuses
       THEN Answer(p, 400) /\ UNCHANGED <<deliveries, audit_log>>
       ELSE /\ deliveries' = [deliveries EXCEPT ![payload.delivery_id] =
                                UpdatedDelivery(@, payload.fields)]
            /\ audit_log' = Append(audit_log,
                    [event_type |-> "delivery_updated", delivery_id |-> payload.delivery_id,
                     details |-> [updated_fields |-> payload.fields]])
            /\ Answer(p, 200)
    /\ UNCHANGED <<delivery_rows, scan_counters, scan_events, transfer_orders, driver_routes, hist, now, moysklad, created_at, notif>>

-----------------------------------------------------------------------------
(* create_transfer, endpoints.py:383-420, and supervisor_transfer, 664-698 *)

TransferRequests(op) ==
    { [op |-> op, delivery_number |-> n, destination_id |-> w, package_count |-> c, user |-> u] :
        n \in Numbers, w \in {"WM"}, c \in {1}, u \in Users }

\* both handlers: the TransferOrder, the status and the audit_log entry, committed
Redirect(p, payload, from, event_type) ==
    /\ transfer_orders' = Append(transfer_orders,
            [delivery_id |-> payload.delivery_number, from_id |-> from,
             to_id |-> payload.destination_id, expected_packages |-> payload.package_count,
             created_by |-> payload.user])
    /\ deliveries' = [deliveries EXCEPT ![payload.delivery_number].status = "redirected"]
    /\ audit_log' = Append(audit_log,
            [event_type |-> event_type, delivery_id |-> payload.delivery_number,
             details |-> [to |-> payload.destination_id,
                          package_count |-> payload.package_count]])
    /\ Answer(p, 200)

create_transfer(p, transfer) ==
    /\ ~Busy(p)
    /\ LET user == UserRow(transfer.user) IN
       IF ~PyEq(user.role, Str("manager"))
       THEN Answer(p, 403) /\ UNCHANGED <<deliveries, audit_log, transfer_orders>>
       ELSE IF transfer.delivery_number \notin DOMAIN deliveries
       THEN Answer(p, 404) /\ UNCHANGED <<deliveries, audit_log, transfer_orders>>
       ELSE IF deliveries[transfer.delivery_number].source_id # user.warehouse_id
       THEN Answer(p, 403) /\ UNCHANGED <<deliveries, audit_log, transfer_orders>>
       ELSE Redirect(p, transfer, user.warehouse_id, "transfer_created")
    /\ UNCHANGED <<delivery_rows, scan_counters, scan_events, driver_routes, hist, now, moysklad, created_at, notif>>

supervisor_transfer(p, payload) ==
    /\ ~Busy(p)
    /\ IF ~PyEq(UserRow(payload.user).role, UserRole("supervisor"))
       THEN Answer(p, 403) /\ UNCHANGED <<deliveries, audit_log, transfer_orders>>
       ELSE IF payload.delivery_number \notin DOMAIN deliveries
       THEN Answer(p, 404) /\ UNCHANGED <<deliveries, audit_log, transfer_orders>>
       ELSE Redirect(p, payload, deliveries[payload.delivery_number].source_id,
                     "supervisor_transfer")
    /\ UNCHANGED <<delivery_rows, scan_counters, scan_events, driver_routes, hist, now, moysklad, created_at, notif>>

-----------------------------------------------------------------------------
(* select_route, endpoints.py:96-118 *)

\* the warehouse with is_main set (endpoints.py:107)
MainWarehouse == "WM"

RouteSelections ==
    { [op |-> "select_route", warehouse_ids |-> ws, user |-> u] :
        ws \in SUBSET {"W1"}, u \in Users }

\* today's rows of the caller are replaced by the main warehouse and the selection
select_route(p, selection) ==
    /\ ~Busy(p)
    /\ driver_routes' = [driver_routes EXCEPT ![selection.user] =
                            {MainWarehouse} \cup selection.warehouse_ids]
    /\ Answer(p, 200)
    /\ UNCHANGED <<deliveries, delivery_rows, scan_counters, scan_events, audit_log, transfer_orders, hist,
                   now, moysklad, created_at, notif>>

-----------------------------------------------------------------------------
(* The notification registry, notifications.py:17-74 and 180-219 *)

\* the users that open notification sockets
Subscribers == {"sup", "mgr"}

\* auth.py:35-44 and notifications.py:35-48: the claims of a user's token; the
\* role claim is the role's value, a str
decode_token_user(u) ==
    [user_id |-> u, role |-> Str(UserRow(u).role.value), warehouse_id |-> UserRow(u).warehouse_id]

\* notifications.py:51-54
register_connection(conns, ws, user_id, role, warehouse_id) ==
    LET entry == [ws |-> ws, role |-> role, warehouse_id |-> warehouse_id] IN
    [u \in DOMAIN conns \cup {user_id} |->
        IF u = user_id
        THEN (IF u \in DOMAIN conns THEN Append(conns[u], entry) ELSE <<entry>>)
        ELSE conns[u]]

\* an unregistration that keeps the subscriber's key when its last handle goes
unregister_keeping_key(conns, user_id, ws) ==
    IF user_id \notin DOMAIN conns \/ conns[user_id] = <<>> THEN conns
    ELSE [conns EXCEPT ![user_id] = SelectSeq(conns[user_id], LAMBDA c : c.ws # ws)]

\* an unregistration that forgets the subscriber with all its handles
unregister_subscriber(conns, user_id, ws) ==
    [u \in DOMAIN conns \ {user_id} |-> conns[u]]

\* notifications.py:57-66
unregister_connection(conns, user_id, ws) ==
    IF user_id \notin DOMAIN conns \/ conns[user_id] = <<>> THEN conns
    ELSE LET new == SelectSeq(conns[user_id], LAMBDA c : c.ws # ws) IN
         IF new # <<>> THEN [conns EXCEPT ![user_id] = new]
         ELSE [u \in DOMAIN conns \ {user_id} |-> conns[u]]

\* notifications.py:180-204: a client connects with a valid token
websocket_notifications(ws, u) ==
    /\ ws_state[ws].st = "new"
    /\ LET info == decode_token_user(u) IN
       /\ connections' = register_connection(connections, ws, info.user_id, info.role,
                                             info.warehouse_id)
       /\ ws_state' = [ws_state EXCEPT ![ws] = [st |-> "open", user_id |-> info.user_id]]
    /\ UNCHANGED <<ledger, pc, req, loc, resp, hist, now, moysklad, created_at,
                   sent, watcher_pc, last_check, new_rows, next_row>>

\* the peer of an open socket goes away; from now on a send on it raises
client_disconnect(ws) ==
    /\ ws_state[ws].st = "open"
    /\ ws_state' = [ws_state EXCEPT ![ws].st = "broken"]
    /\ UNCHANGED <<ledger, pc, req, loc, resp, hist, now, moysklad, created_at,
                   connections, sent, watcher_pc, last_check, new_rows, next_row>>

\* notifications.py:206-219: receive_text raises on the socket whose peer is gone
websocket_disconnect(ws) ==
    /\ ws_state[ws].st = "broken"
    /\ connections' = unregister_connection(connections, ws_state[ws].user_id, ws)
    /\ ws_state' = [ws_state EXCEPT ![ws].st = "closed"]
    /\ UNCHANGED <<ledger, pc, req, loc, resp, hist, now, moysklad, created_at,
                   sent, watcher_pc, last_check, new_rows, next_row>>

-----------------------------------------------------------------------------
(* The delivery watcher, notifications.py:89-174 *)

tick ==
    /\ now < MaxClock
    /\ now' = now + 1
    /\ UNCHANGED <<ledger, pc, req, loc, resp, hist, moysklad, created_at, notif>>

\* the sequences that hold every element of S once
Orders(S) ==
    { f \in [1..Cardinality(S) -> S] : \A i, j \in DOMAIN f : i # j => f[i] # f[j] }

\* a query that also returns the rows stamped exactly at the watermark
FetchRowsInclusive(last) ==
    LET rows == { n \in DOMAIN deliveries : created_at[n] >= last } IN
    { f \in Orders(rows) : \A i, j \in DOMAIN f : i < j => created_at[f[i]] <= created_at[f[j]] }

\* notifications.py:159-161: the rows created after the watermark, oldest
\* first (rows of one timestamp in any order)
FetchRows(last) ==
    LET rows == { n \in DOMAIN deliveries : created_at[n] > last } IN
    { f \in Orders(rows) : \A i, j \in DOMAIN f : i < j => created_at[f[i]] <= created_at[f[j]] }

\* a watermark taken from the first (oldest) row of the cycle
OldestCreated(rows, last) ==
    IF rows = <<>> THEN last ELSE created_at[rows[1]]

\* notifications.py:163-165: max(d.created_at for d in new_rows) or last_check
NewestCreated(rows, last) ==
    IF rows = <<>> THEN last
    ELSE LET m == CHOOSE i \in DOMAIN rows :
                    \A j \in DOMAIN rows : created_at[rows[j]] <= created_at[rows[i]]
         IN  created_at[rows[m]]

\* a fanout in which managers are treated like supervisors
NotifiedAll(uid, c, d) ==
    \/ PyEq(c.role, Str("supervisor"))
    \/ PyEq(c.role, Str("manager"))
    \/ /\ PyEq(c.role, Str("driver"))
       /\ (d.destination_id \in driver_routes[uid] \/ d.source_id \in driver_routes[uid])

\* notifications.py:112-137: connection c of user uid is sent delivery d
Notified(uid, c, d) ==
    IF PyEq(c.role, Str("supervisor")) THEN TRUE
    ELSE IF PyEq(c.role, Str("manager"))
    THEN c.warehouse_id # None /\ c.warehouse_id = d.destination_id
    ELSE IF PyEq(c.role, Str("driver"))
    THEN d.destination_id \in driver_routes[uid] \/ d.source_id \in driver_routes[uid]
    ELSE FALSE

\* notifications.py:98-102: the (uid, connection) pairs of the registry
Snapshot ==
    UNION { { <<uid, connections[uid][i]>> : i \in DOMAIN connections[uid] } :
                uid \in DOMAIN connections }

\* notifications.py:156-165: a poll that succeeds
watcher_poll ==
    /\ watcher_pc = "poll"
    /\ \E rows \in FetchRows(last_check) :
        /\ new_rows' = rows
        /\ last_check' = NewestCreated(rows, last_check)
        /\ watcher_pc' = IF rows = <<>> THEN "sleep" ELSE "fanout"
    /\ next_row' = 1
    /\ UNCHANGED <<ledger, pc, req, loc, resp, hist, now, moysklad, created_at,
                   connections, ws_state, sent>>

\* notifications.py:172-174: the query raises; the loop sleeps and goes on
watcher_poll_fails ==
    /\ watcher_pc = "poll"
    /\ watcher_pc' = "backoff"
    /\ UNCHANGED <<ledger, pc, req, loc, resp, hist, now, moysklad, created_at,
                   connections, ws_state, sent, last_check, new_rows, next_row>>

\* notifications.py:122-130: the snapshot entries whose route lookup raises
\* when fails[uid] lookups of driver uid raise: the first fails[uid] connections
\* of the driver (a lookup that succeeds is cached for the driver's other
\* connections, one that raises is repeated for the next)
LookupFailures(fails) ==
    { e \in Snapshot :
        /\ PyEq(e[2].role, Str("driver"))
        /\ \E i \in 1..fails[e[1]] : connections[e[1]][i] = e[2] }

RECURSIVE UnregisterAll(_, _)
\* notifications.py:140-145: unregister_connection for every entry of es
UnregisterAll(conns, es) ==
    IF es = {} THEN conns
    ELSE LET e == CHOOSE x \in es : TRUE
         IN  UnregisterAll(unregister_connection(conns, e[1], e[2].ws), es \ {e})

\* a fanout that gives up at the first connection whose route lookup raises
FanoutAborting(n, failing) ==
    [w \in Sockets |->
        IF failing = {} /\ \E e \in Snapshot :
                              /\ e[2].ws = w
                              /\ Notified(e[1], e[2], deliveries[n])
                              /\ ws_state[w].st = "open"
        THEN Append(sent[w], n) ELSE sent[w]]

\* notifications.py:107-145: what each socket has been sent after the fanout
\* of delivery n in which the lookups of the entries `failing` raise.  A send
\* on a broken socket raises inside send_json_safe, which swallows the
\* exception (lines 69-74).
FanoutSent(n, failing) ==
    [w \in Sockets |->
        IF \E e \in Snapshot \ failing :
                /\ e[2].ws = w
                /\ Notified(e[1], e[2], deliveries[n])
                /\ ws_state[w].st = "open"
        THEN Append(sent[w], n) ELSE sent[w]]

\* notifications.py:167-169 and 89-145: the fanout of the next row of the cycle
notify_new_delivery ==
    /\ watcher_pc = "fanout"
    /\ \E fails \in [DOMAIN connections -> 0..Cardinality(Sockets)] :
        /\ \A uid \in DOMAIN connections : fails[uid] <= Len(connections[uid])
        /\ sent' = FanoutSent(new_rows[next_row], LookupFailures(fails))
        /\ connections' = UnregisterAll(connections, LookupFailures(fails))
    /\ next_row' = next_row + 1
    /\ watcher_pc' = IF next_row = Len(new_rows) THEN "sleep" ELSE "fanout"
    /\ UNCHANGED <<ledger, pc, req, loc, resp, hist, now, moysklad, created_at,
                   ws_state, last_check, new_rows>>

\* notifications.py:171 and 174: asyncio.sleep(POLL_INTERVAL) is over
watcher_wake ==
    /\ watcher_pc \in {"sleep", "backoff"}
    /\ watcher_pc' = "poll"
    /\ UNCHANGED <<ledger, pc, req, loc, resp, hist, now, moysklad, created_at,
                   connections, ws_state, sent, last_check, new_rows, next_row>>

\* notifications.py:240-248: stop_watcher sets _watcher_stop and cancels the
\* task.  The task is suspended at an await: in one of the sleeps (a task
\* that has not yet resumed from its sleep included), or in a send of the
\* fanout of the current row, where the CancelledError, which is no Exception,
\* passes send_json_safe and both except clauses and ends the loop (taken at
\* the row's first send: nothing of the row has been sent).
stop_watcher ==
    /\ \/ watcher_pc \in {"sleep", "backoff", "poll"}
       \/ /\ watcher_pc = "fanout"
          /\ \E e \in Snapshot : Notified(e[1], e[2], deliveries[new_rows[next_row]])
    /\ watcher_pc' = "stopped"
    /\ UNCHANGED <<ledger, pc, req, loc, resp, hist, now, moysklad, created_at,
                   connections, ws_state, sent, last_check, new_rows, next_row>>

-----------------------------------------------------------------------------
(* Specifications *)

RequestsBy(requests, user) == { r \in requests : r.user = user }

\* every handler, two request slots running concurrently
Next ==
    \E p \in Procs :
        \/ Budget(MaxAudit) /\ \E r \in CreateRequests : create_delivery(p, r)
        \/ Budget(MaxAudit) /\ \E r \in ScanRequests : scan_delivery_begin(p, r)
        \/ scan_delivery_load_counter(p)
        \/ scan_delivery_insert_counter(p)
        \/ scan_delivery_commit(p)
        \/ scan_delivery_commit_fails(p)
        \/ Budget(MaxAudit) /\ \E r \in ManualRequests : supervisor_manual_scan(p, r)
        \/ Budget(MaxAudit) /\ \E r \in UpdateRequests : supervisor_update_delivery(p, r)
        \/ Budget(MaxAudit) /\ \E r \in TransferRequests("create_transfer") : create_transfer(p, r)
        \/ Budget(MaxAudit) /\ \E r \in TransferRequests("supervisor_transfer") : supervisor_transfer(p, r)

Spec == Init /\ [][Next]_vars

\* every handler, one request at a time
NextSeq ==
    \/ Budget(MaxAuditSeq) /\ \E r \in CreateRequests : create_delivery(1, r)
    \/ Budget(MaxAuditSeq) /\ \E r \in ScanRequests : scan_delivery_begin(1, r)
    \/ scan_delivery_load_counter(1)
    \/ scan_delivery_insert_counter(1)
    \/ scan_delivery_commit(1)
    \/ scan_delivery_commit_fails(1)
    \/ Budget(MaxAuditSeq) /\ \E r \in ManualRequests : supervisor_manual_scan(1, r)
    \/ Budget(MaxAuditSeq) /\ \E r \in UpdateRequests : supervisor_update_delivery(1, r)
    \/ Budget(MaxAuditSeq) /\ \E r \in TransferRequests("create_transfer") : create_transfer(1, r)
    \/ Budget(MaxAuditSeq) /\ \E r \in TransferRequests("supervisor_transfer") : supervisor_transfer(1, r)

SpecSeq == Init /\ [][NextSeq]_vars

\* the end-to-end scenario's requests: one delivery of 10 packages and its five
\* scans, submitted one at a time in any order and any number of times
E2ECreate ==
    [op |-> "create", delivery_number |-> "D1", expected_packages |-> 10,
     destination_id |-> "W2", user |-> "mgr"]

E2EScan(stage, count) ==
    [op |-> "scan", delivery_number |-> "D1", stage |-> SchemaStage(stage),
     count |-> count, user |-> "drv"]

E2EScans ==
    <<E2EScan("source_pick", 6), E2EScan("source_pick", 10), E2EScan("dest_arrival", 10),
      E2EScan("dest_receive", 4), E2EScan("dest_receive", 6)>>

NextE2E ==
    \/ Budget(MaxAuditE2E) /\ create_delivery(1, E2ECreate)
    \/ Budget(MaxAuditE2E) /\ \E i \in DOMAIN E2EScans : scan_delivery_begin(1, E2EScans[i])
    \/ scan_delivery_load_counter(1)
    \/ scan_delivery_insert_counter(1)
    \/ scan_delivery_commit(1)
    \/ scan_delivery_commit_fails(1)

SpecE2E == Init /\ [][NextE2E]_vars

\* a manager's delivery creations and a driver's scans only, two request slots
\* running concurrently
NextScans ==
    \E p \in Procs :
        \/ Budget(MaxAuditPair) /\ \E r \in RequestsBy(CreateRequests, "mgr") : create_delivery(p, r)
        \/ Budget(MaxAuditPair) /\ \E r \in RequestsBy(ScanRequests, "drv") : scan_delivery_begin(p, r)
        \/ scan_delivery_load_counter(p)
        \/ scan_delivery_insert_counter(p)
        \/ scan_delivery_commit(p)
        \/ scan_delivery_commit_fails(p)

SpecScans == Init /\ [][NextScans]_vars

\* the same requests, with a shorter audit log
NextAtomic ==
    \E p \in Procs :
        \/ Budget(MaxAudit) /\ \E r \in RequestsBy(CreateRequests, "mgr") : create_delivery(p, r)
        \/ Budget(MaxAudit) /\ \E r \in RequestsBy(ScanRequests, "drv") : scan_delivery_begin(p, r)
        \/ scan_delivery_load_counter(p)
        \/ scan_delivery_insert_counter(p)
        \/ scan_delivery_commit(p)
        \/ scan_delivery_commit_fails(p)

SpecAtomic == Init /\ [][NextAtomic]_vars

\* a manager's delivery creations, a driver's route selections and scans, one
\* request at a time
NextRoute ==
    \/ Budget(MaxAuditSeq) /\ \E r \in RequestsBy(CreateRequests, "mgr") : create_delivery(1, r)
    \/ \E r \in RequestsBy(RouteSelections, "drv") : select_route(1, r)
    \/ Budget(MaxAuditSeq) /\ \E r \in RequestsBy(ScanRequests, "drv") : scan_delivery_begin(1, r)
    \/ scan_delivery_load_counter(1)
    \/ scan_delivery_insert_counter(1)
    \/ scan_delivery_commit(1)
    \/ scan_delivery_commit_fails(1)

SpecRoute == Init /\ [][NextRoute]_vars

\* the watcher scenario's requests: a supervisor creates deliveries to W1 and W2
WatchNumbers == {"D1", "D2"}

WatchCreates ==
    { [op |-> "create", delivery_number |-> n, expected_packages |-> 1,
       destination_id |-> w, user |-> "sup"] :
        n \in WatchNumbers, w \in {"W1", "W2"} }

\* delivery creations, the clock, the notification sockets and the watcher
NextWatch ==
    \/ \E r \in WatchCreates : create_delivery(1, r)
    \/ tick
    \/ \E w \in Sockets, u \in Subscribers : websocket_notifications(w, u)
    \/ \E w \in Sockets : client_disconnect(w)
    \/ \E w \in Sockets : websocket_disconnect(w)
    \/ watcher_poll
    \/ watcher_poll_fails
    \/ notify_new_delivery
    \/ watcher_wake

SpecWatch == Init /\ [][NextWatch]_vars

\* the same, with the subscribers connecting before the first delivery is
\* created; the watcher task keeps running, and its query does not fail forever
NextWatchFair ==
    \/ \E r \in WatchCreates : create_delivery(1, r)
    \/ tick
    \/ deliveries = <<>> /\ \E w \in Sockets, u \in Subscribers : websocket_notifications(w, u)
    \/ \E w \in Sockets : client_disconnect(w)
    \/ \E w \in Sockets : websocket_disconnect(w)
    \/ watcher_poll
    \/ watcher_poll_fails
    \/ notify_new_delivery
    \/ watcher_wake

SpecWatchFair ==
    /\ Init
    /\ [][NextWatchFair]_vars
    /\ SF_vars(watcher_poll)
    /\ WF_vars(notify_new_delivery)
    /\ WF_vars(watcher_wake)

\* the fanout to drivers: deliveries made by the supervisor (from the main
\* warehouse) and by the manager, the driver's route selections, sockets of
\* the driver and of the supervisor, and the watcher
FanoutSubscribers == {"drv", "sup"}

FanoutCreates ==
    { [op |-> "create", delivery_number |-> n, expected_packages |-> 1,
       destination_id |-> "W2", user |-> u] :
        n \in WatchNumbers, u \in {"sup", "mgr"} }

NextFanout ==
    \/ \E r \in FanoutCreates : create_delivery(1, r)
    \/ \E r \in RequestsBy(RouteSelections, "drv") : select_route(1, r)
    \/ \E w \in Sockets, u \in FanoutSubscribers : websocket_notifications(w, u)
    \/ \E w \in Sockets : client_disconnect(w)
    \/ \E w \in Sockets : websocket_disconnect(w)
    \/ watcher_poll
    \/ notify_new_delivery
    \/ watcher_wake

SpecFanout == Init /\ [][NextFanout]_vars

\* the retry after a failed poll: the subscribers connect first; one delivery
\* is created at any time, the others only while the watcher is in the
\* back-off sleep after a failed poll
NextRetryFair ==
    \/ (deliveries = <<>> \/ watcher_pc = "backoff")
          /\ \E r \in WatchCreates : create_delivery(1, r)
    \/ tick
    \/ deliveries = <<>> /\ \E w \in Sockets, u \in Subscribers : websocket_notifications(w, u)
    \/ watcher_poll
    \/ watcher_poll_fails
    \/ notify_new_delivery
    \/ watcher_wake

SpecRetryFair ==
    /\ Init
    /\ [][NextRetryFair]_vars
    /\ SF_vars(watcher_poll)
    /\ WF_vars(notify_new_delivery)
    /\ WF_vars(watcher_wake)

\* the watcher between start and stop: deliveries, two subscribers, the
\* watcher's cycles and stop_watcher
NextStop ==
    \/ \E r \in WatchCreates : create_delivery(1, r)
    \/ tick
    \/ \E w \in Sockets, u \in Subscribers : websocket_notifications(w, u)
    \/ watcher_poll
    \/ watcher_poll_fails
    \/ notify_new_delivery
    \/ watcher_wake
    \/ stop_watcher

SpecStop == Init /\ [][NextStop]_vars

\* scans of two deliveries: a manager creates them, a driver scans them at
\* any stage, two requests at a time
FrameCreates ==
    { [op |-> "create", delivery_number |-> n, expected_packages |-> e,
       destination_id |-> "W2", user |-> "mgr"] :
        n \in WatchNumbers, e \in {MaxExpected} }

FrameScans ==
    { [op |-> "scan", delivery_number |-> n, stage |-> SchemaStage(s), count |-> c,
       user |-> "drv"] :
        n \in WatchNumbers, s \in StageNames, c \in {1} }

NextFrame ==
    \E p \in Procs :
        \/ Budget(MaxAuditPair) /\ \E r \in FrameCreates : create_delivery(p, r)
        \/ Budget(MaxAuditPair) /\ \E r \in FrameScans : scan_delivery_begin(p, r)
        \/ scan_delivery_load_counter(p)
        \/ scan_delivery_insert_counter(p)
        \/ scan_delivery_commit(p)
        \/ scan_delivery_commit_fails(p)

SpecFrame == Init /\ [][NextFrame]_vars

\* redirects: a manager's deliveries, a driver's scans, and transfer requests
\* of every user, one request at a time
NextTransfer ==
    \/ Budget(MaxAuditSeq) /\ \E r \in RequestsBy(CreateRequests, "mgr") : create_delivery(1, r)
    \/ Budget(MaxAuditSeq) /\ \E r \in RequestsBy(ScanRequests, "drv") : scan_delivery_begin(1, r)
    \/ scan_delivery_load_counter(1)
    \/ scan_delivery_insert_counter(1)
    \/ scan_delivery_commit(1)
    \/ scan_delivery_commit_fails(1)
    \/ Budget(MaxAuditSeq) /\ \E r \in TransferRequests("create_transfer") : create_transfer(1, r)
    \/ Budget(MaxAuditSeq) /\ \E r \in TransferRequests("supervisor_transfer") : supervisor_transfer(1, r)

SpecTransfer == Init /\ [][NextTransfer]_vars

\* concurrent creations: a manager and a supervisor create deliveries, two
\* requests at a time, the handler taken step by step
RaceCreates ==
    { [op |-> "create", delivery_number |-> n, expected_packages |-> e,
       destination_id |-> "W2", user |-> u] :
        n \in WatchNumbers, e \in Expecteds, u \in {"mgr", "sup"} }

NextCreate ==
    \E p \in Procs :
        \/ \E r \in RaceCreates : create_delivery_begin(p, r)
        \/ create_delivery_insert(p)
        \/ create_delivery_commit(p)
        \/ create_delivery_commit_fails(p)

SpecCreate == Init /\ [][NextCreate]_vars

-----------------------------------------------------------------------------
(* Properties *)

Last(q) == q[Len(q)]

Quiet == \A p \in Procs : ~Busy(p)

\* slot p's scan is answered 200 in this step
ScanCommitted(p) == pc[p] = "counted" /\ pc'[p] = "done" /\ resp'[p] = 200

\* the audit log holds nothing but delivery creations and scans
OnlyScans == \A i \in DOMAIN audit_log : audit_log[i].event_type \in {"delivery_created", "scan"}

RECURSIVE SumRequested(_, _)
\* the sum of the requested counts of the answered scans of h on key
SumRequested(h, key) ==
    IF h = <<>> THEN 0
    ELSE (IF <<Last(h).delivery, Last(h).stage>> = key THEN Last(h).count ELSE 0)
         + SumRequested(SubSeq(h, 1, Len(h) - 1), key)

\* the stage gate as section 4.1 of the specification words it
GateIntended(stage, status) ==
    \/ stage = "dest_arrival" /\ status # "picked"
    \/ stage = "dest_receive" /\ status \notin {"picked", "arrived", "partial_receive"}

\* C1: in every reachable state every (delivery, stage) counter satisfies
\* 0 <= total <= expected_packages of its delivery.
C1_CounterInRange ==
    \A key \in DOMAIN scan_counters :
        /\ 0 <= scan_counters[key]
        /\ scan_counters[key] <= deliveries[key[1]].expected_packages

\* C2: two concurrent scans of the same (delivery, stage) lose no update: once
\* all scans are answered, and none asked for a negative count, every counter
\* equals the serial result min(expected, sum of the requested counts).
C2_NoLostUpdate ==
    (Quiet /\ \A i \in DOMAIN hist : hist[i].count >= 0) =>
        \A key \in DOMAIN scan_counters :
            scan_counters[key] = Min(deliveries[key[1]].expected_packages, SumRequested(hist, key))

\* C3: a scan whose count would push the counter past expected_packages is not
\* rejected: it is answered 200 unless the store fails the commit, and a 200
\* leaves the counter at exactly expected_packages, records
\* increment = max(0, expected_packages - previous total) in the audit_log entry,
\* and appends one ScanEvent with that count when it is positive.
C3_OverscanCapped ==
    [][\A p \in Procs :
        (pc[p] = "counted" /\ loc[p].total + req[p].count > loc[p].expected /\ pc'[p] # "counted")
        => /\ resp'[p] \in {200, 500}
           /\ resp'[p] = 200 =>
                LET inc == Max(0, loc[p].expected - loc[p].total) IN
                /\ scan_counters'[CounterKey(p)] = loc[p].expected
                /\ Len(audit_log') = Len(audit_log) + 1
                /\ Last(audit_log').event_type = "scan"
                /\ Last(audit_log').details.count = inc
                /\ inc > 0 => /\ Len(scan_events') = Len(scan_events) + 1
                              /\ Last(scan_events').count = inc
                              /\ Last(scan_events').stage = req[p].stage.value
                /\ inc = 0 => scan_events' = scan_events]_vars

\* C3 witness: the last answered scan asked for more than was left, and was
\* applied with a positive increment smaller than its count, filling the counter.
C3_Witness ==
    /\ Quiet
    /\ hist # <<>> /\ audit_log # <<>>
    /\ Last(audit_log).event_type = "scan"
    /\ Last(audit_log).details.count > 0
    /\ Last(audit_log).details.count < Last(hist).count
    /\ <<Last(hist).delivery, Last(hist).stage>> \in DOMAIN scan_counters
    /\ scan_counters[<<Last(hist).delivery, Last(hist).stage>>]
         = deliveries[Last(hist).delivery].expected_packages

\* C4: after any sequence of scans (and nothing but scans), every counter
\* equals min(expected, sum of the requested counts of the scans on its key).
C4_TotalIsCappedSum ==
    (Quiet /\ OnlyScans) =>
        \A key \in DOMAIN scan_counters :
            scan_counters[key] = Min(deliveries[key[1]].expected_packages, SumRequested(hist, key))

\* C5: a dest_arrival scan on a delivery whose status is not picked is answered
\* 400 before anything is loaded or written: no dest_arrival scan gets past
\* the gate on a delivery that is not picked.
C5_ArrivalGate ==
    \A p \in Procs :
        (pc[p] = "loaded" /\ req[p].stage.value = "dest_arrival") => loc[p].status = "picked"

\* C6: a dest_receive scan gets past the gate only when the status is picked,
\* arrived or partial_receive.
C6_ReceiveGate ==
    \A p \in Procs :
        (pc[p] = "loaded" /\ req[p].stage.value = "dest_receive")
        => loc[p].status \in {"picked", "arrived", "partial_receive"}

\* C7: a source_pick scan answered 200 on a delivery in status created or
\* partial_pick leaves the status picked when the resulting total equals
\* expected_packages and partial_pick when it is smaller (stated for the
\* counts >= 1, the scans that confirm at least one package).
C7_PickStatus ==
    [][\A p \in Procs :
        (ScanCommitted(p) /\ req[p].stage.value = "source_pick" /\ req[p].count >= 1
            /\ loc[p].status \in {"created", "partial_pick"})
        => LET total == scan_counters'[CounterKey(p)]
               d == deliveries'[loc[p].delivery]
           IN  /\ total = d.expected_packages => d.status = "picked"
               /\ total < d.expected_packages => d.status = "partial_pick"]_vars

\* C8: a dest_arrival scan answered 200 leaves the status arrived; a
\* dest_receive scan answered 200 leaves it received when the resulting total
\* >= expected_packages and partial_receive otherwise (stated for the counts
\* >= 1, a counter that is not negative, and the statuses in which the stage's
\* gate lets the scan through).
C8_ArrivalReceiveStatus ==
    [][\A p \in Procs :
        (ScanCommitted(p) /\ req[p].count >= 1 /\ loc[p].total >= 0
            /\ ~GateIntended(req[p].stage.value, loc[p].status))
        => LET total == scan_counters'[CounterKey(p)]
               d == deliveries'[loc[p].delivery]
           IN  /\ req[p].stage.value = "dest_arrival" => d.status = "arrived"
               /\ req[p].stage.value = "dest_receive" =>
                    d.status = IF total >= d.expected_packages
                               THEN "received" ELSE "partial_receive"]_vars

\* C9: once a counter equals expected_packages, a further scan at that stage
\* is answered 200 (unless the store fails the commit) with an audit_log entry of
\* count 0, no ScanEvent, and the counter and the delivery unchanged.
C9_NoOpScan ==
    [][\A p \in Procs :
        (pc[p] = "counted" /\ ~loc[p].inserted /\ loc[p].total = loc[p].expected
            /\ pc'[p] # "counted")
        => /\ resp'[p] \in {200, 500}
           /\ resp'[p] = 200 =>
                /\ Last(audit_log').details.count = 0
                /\ scan_events' = scan_events
                /\ scan_counters' = scan_counters
                /\ deliveries' = deliveries]_vars

\* what the scenario expects after each of its five scans
E2EStatus == <<"partial_pick", "picked", "arrived", "partial_receive", "received">>

E2EHist(n) == [i \in 1..n |-> [delivery |-> "D1", stage |-> E2EScans[i].stage.value,
                               count |-> E2EScans[i].count]]

CounterOf(key) == IF key \in DOMAIN scan_counters THEN scan_counters[key] ELSE 0

\* C10: with expected_packages = 10, after source_pick 6, source_pick 10,
\* dest_arrival 10, dest_receive 4, dest_receive 6 (each answered 200, in this
\* order, from created) the status is partial_pick, picked, arrived,
\* partial_receive, received in turn; the source_pick counter is 6 and then
\* 10, the dest_receive counter 4 after the fourth scan.
C10_EndToEnd ==
    \A n \in 1..5 :
        (Quiet /\ hist = E2EHist(n)) =>
            /\ deliveries["D1"].status = E2EStatus[n]
            /\ CounterOf(<<"D1", "source_pick">>) = (IF n = 1 THEN 6 ELSE 10)
            /\ n = 4 => CounterOf(<<"D1", "dest_receive">>) = 4

\* C11: a scan by a user whose role is driver, whose route rows for today
\* contain neither the delivery's source nor its destination, is answered 403
\* for every stage and count and changes nothing: no such scan gets past the
\* route check.
C11_DriverRouteGate ==
    \A p \in Procs :
        (pc[p] = "loaded" /\ UserRow(req[p].user).role.value = "driver")
        => \/ loc[p].source \in driver_routes[req[p].user]
           \/ loc[p].destination \in driver_routes[req[p].user]

\* C12: a scan is all-or-nothing.  A step of a scan that does not answer 200
\* (the checks, the counter SELECT, the flushed INSERT, a rejection, a failed
\* commit) leaves the ledger as it was; the step that answers 200 appends the
\* audit entry with the increment and, together with it, the ScanEvent of
\* that count and the bumped counter when the increment is positive, and no
\* ScanEvent when it is 0; and no step of any handler changes a counter or
\* adds a ScanEvent without adding an audit entry.
C12_AllOrNothing ==
    [][/\ \A p \in Procs :
            /\ (pc'[p] # pc[p] /\ ~(pc'[p] = "done" /\ resp'[p] = 200)) => ledger' = ledger
            /\ ScanCommitted(p) =>
                 /\ Len(audit_log') = Len(audit_log) + 1
                 /\ Last(audit_log').event_type = "scan"
                 /\ Last(audit_log').delivery_id = loc[p].delivery
                 /\ LET inc == Last(audit_log').details.count IN
                    /\ inc >= 0
                    /\ inc > 0 => /\ Len(scan_events') = Len(scan_events) + 1
                                  /\ Last(scan_events').count = inc
                                  /\ Last(scan_events').delivery_id = loc[p].delivery
                                  /\ Last(scan_events').stage = req[p].stage.value
                                  /\ scan_counters'[CounterKey(p)] = loc[p].total + inc
                    /\ inc = 0 => scan_events' = scan_events
       /\ (scan_counters' # scan_counters \/ scan_events' # scan_events)
            => Len(audit_log') = Len(audit_log) + 1]_vars

\* C12 witness: a scan that had flushed a new counter row failed at commit and
\* left no counter row, no ScanEvent and no audit entry behind.
C12_Witness ==
    /\ \E p \in Procs : pc[p] = "done" /\ resp[p] = 500
    /\ deliveries # <<>>
    /\ scan_counters = <<>>
    /\ scan_events = <<>>
    /\ Len(audit_log) = 1

RECURSIVE SumEvents(_, _)
\* the sum of the count fields of the ScanEvents of evs recorded for key
SumEvents(evs, key) ==
    IF evs = <<>> THEN 0
    ELSE (IF <<Last(evs).delivery_id, Last(evs).stage>> = key THEN Last(evs).count ELSE 0)
         + SumEvents(SubSeq(evs, 1, Len(evs) - 1), key)

\* C13: in every reachable state and for every (delivery, stage), the sum of
\* the counts of the ScanEvents recorded for the pair equals the pair's counter
\* total (0 when it has no counter row).
C13_EventsMatchCounter ==
    \A n \in DOMAIN deliveries, s \in StageNames :
        SumEvents(scan_events, <<n, s>>) = CounterOf(<<n, s>>)

\* C14: received and redirected are terminal: a step that answers a scan 200
\* or that creates a TransferOrder (create_transfer, supervisor_transfer)
\* leaves the status of every received or redirected delivery as it was.
C14_TerminalStatus ==
    [][\A n \in DOMAIN deliveries :
        (/\ deliveries[n].status \in {"received", "redirected"}
         /\ \/ \E p \in Procs : ScanCommitted(p)
            \/ Len(transfer_orders') > Len(transfer_orders))
        => deliveries'[n].status = deliveries[n].status]_vars

\* C15: the status of a delivery that is not redirected is determined by its
\* counters: picked, arrived, partial_receive and received imply that the
\* source_pick total equals expected_packages; the status is received exactly
\* when the dest_receive total equals expected_packages; partial_pick implies
\* 0 < source_pick total < expected_packages.
C15_StatusFromCounters ==
    \A n \in DOMAIN deliveries :
        LET d == deliveries[n]
            picked == CounterOf(<<n, "source_pick">>)
            received == CounterOf(<<n, "dest_receive">>)
        IN  d.status # "redirected" =>
                /\ d.status \in {"picked", "arrived", "partial_receive", "received"}
                     => picked = d.expected_packages
                /\ d.status = "received" <=> received = d.expected_packages
                /\ d.status = "partial_pick" => (0 < picked /\ picked < d.expected_packages)

\* the fanout of one delivery takes place in this step
Fanout == watcher_pc = "fanout" /\ next_row' = next_row + 1

\* socket w is in the registry
Registered(conns, w) ==
    \E uid \in DOMAIN conns : \E i \in DOMAIN conns[uid] : conns[uid][i].ws = w

Received(w, n) == \E i \in DOMAIN sent[w] : sent[w][i] = n

\* C16: in the fanout of a delivery, every registered supervisor connection
\* that can be written to is sent the delivery_created event, and a registered
\* manager connection is sent it exactly when its warehouse is the delivery's
\* destination; so of two deliveries fetched in one poll, a supervisor
\* connection receives both and a manager connection of the second one's
\* destination only the second.
C16_FanoutFilter ==
    [][Fanout =>
        \A e \in Snapshot :
            LET c == e[2]
                n == new_rows[next_row]
                wanted == \/ c.role.value = "supervisor"
                          \/ c.role.value = "manager"
                               /\ c.warehouse_id = deliveries[n].destination_id
            IN  ws_state[c.ws].st = "open" =>
                    sent'[c.ws] = IF wanted THEN Append(sent[c.ws], n) ELSE sent[c.ws]]_vars

\* C16 witness: one poll fetched two deliveries; the supervisor's connection
\* was sent both, the manager's only the second, the one bound for its warehouse.
C16_Witness ==
    /\ watcher_pc = "sleep"
    /\ Len(new_rows) = 2
    /\ deliveries[new_rows[1]].destination_id # UserRow("mgr").warehouse_id
    /\ deliveries[new_rows[2]].destination_id = UserRow("mgr").warehouse_id
    /\ \E w1, w2 \in Sockets :
        /\ ws_state[w1] = [st |-> "open", user_id |-> "sup"]
        /\ ws_state[w2] = [st |-> "open", user_id |-> "mgr"]
        /\ sent[w1] = new_rows
        /\ sent[w2] = <<new_rows[2]>>

\* connection w is registered, can be written to, and is one that the
\* delivery_created event of delivery n goes to
Listening(w, n) ==
    /\ n \in DOMAIN deliveries
    /\ ws_state[w].st = "open"
    /\ \E e \in Snapshot : e[2].ws = w /\ Notified(e[1], e[2], deliveries[n])

\* C17: no created delivery is skipped: whenever a delivery exists and a
\* connection registered before it was created matches it, the connection
\* eventually has received its delivery_created event or has gone away.
C17_NoSkippedDelivery ==
    \A n \in WatchNumbers : \A w \in Sockets :
        Listening(w, n) ~> (Received(w, n) \/ ~Listening(w, n))

\* C18: over a run of the watcher no connection is sent the delivery_created
\* event of one delivery more than once.
C18_NoReannounce ==
    \A w \in Sockets : \A i, j \in DOMAIN sent[w] : i # j => sent[w][i] # sent[w][j]

\* C18 witness: a connection was sent a delivery's event, and a later poll,
\* taken while that connection was still registered, fetched nothing.
C18_Witness ==
    /\ watcher_pc = "sleep"
    /\ new_rows = <<>>
    /\ \E w \in Sockets : /\ sent[w] # <<>>
                           /\ ws_state[w].st = "open"
                           /\ created_at[sent[w][1]] = last_check

\* C19: the watermark never rewinds; a poll that fetched rows leaves it at the
\* largest created_at among them, and a failed or empty poll leaves it alone.
C19_WatermarkMonotonic ==
    [][/\ last_check' >= last_check
       /\ (watcher_pc = "poll" /\ watcher_pc' = "fanout") =>
            /\ \A i \in DOMAIN new_rows' : created_at[new_rows'[i]] <= last_check'
            /\ \E i \in DOMAIN new_rows' : created_at[new_rows'[i]] = last_check'
       /\ (watcher_pc = "poll" /\ watcher_pc' \in {"sleep", "backoff"})
            => last_check' = last_check]_vars

\* C19 witness: a poll fetched two deliveries of different timestamps and the
\* watermark stands at the later one.
C19_Witness ==
    /\ Len(new_rows) = 2
    /\ created_at[new_rows[1]] < created_at[new_rows[2]]
    /\ last_check = created_at[new_rows[2]]

\* C20: a connection on which the send of an event fails during a fanout is
\* out of the registry when the fanout is over.
C20_FailedSendUnregisters ==
    [][Fanout =>
        \A e \in Snapshot :
            (Notified(e[1], e[2], deliveries[new_rows[next_row]])
                /\ ws_state[e[2].ws].st = "broken")
            => ~Registered(connections', e[2].ws)]_vars

\* C21: a failure for one connection during a fanout (a send that raises, a
\* driver's route lookup that raises) does not abort the fanout: every other
\* connection of the snapshot that matches the delivery and can be written to
\* is sent the event in the same fanout, and the watcher goes on to the
\* remaining rows of the cycle.
C21_FanoutGoesOn ==
    [][Fanout =>
        /\ \A e \in Snapshot :
            LET c == e[2]
                d == deliveries[new_rows[next_row]]
                matches ==
                    \/ c.role.value = "supervisor"
                    \/ c.role.value = "manager" /\ c.warehouse_id = d.destination_id
                    \/ c.role.value = "driver"
                         /\ (d.source_id \in driver_routes[e[1]]
                                \/ d.destination_id \in driver_routes[e[1]])
            IN  (matches /\ ws_state[c.ws].st = "open" /\ Registered(connections', c.ws))
                    => sent'[c.ws] = Append(sent[c.ws], new_rows[next_row])
        /\ next_row < Len(new_rows) => watcher_pc' = "fanout"]_vars

\* C21 witness: in the last fanout the route lookup of a driver's connection
\* raised (the connection is open, was sent nothing and is out of the
\* registry) and another connection was sent the delivery.
C21_Witness ==
    /\ next_row > 1
    /\ \E w1, w2 \in Sockets :
        /\ ws_state[w1] = [st |-> "open", user_id |-> "drv"]
        /\ ~Registered(connections, w1)
        /\ sent[w1] = <<>>
        /\ ws_state[w2].st = "open"
        /\ Registered(connections, w2)
        /\ sent[w2] # <<>>
        /\ Last(sent[w2]) = new_rows[next_row - 1]

\* C22: a failed poll is swallowed and retried: whenever the watcher is in the
\* back-off sleep after a failed poll and a delivery exists that a listening
\* connection has not been sent, the connection eventually is sent it (or
\* goes away).
C22_FailedPollRetried ==
    \A n \in WatchNumbers : \A w \in Sockets :
        (watcher_pc = "backoff" /\ Listening(w, n) /\ ~Received(w, n))
            ~> (Received(w, n) \/ ~Listening(w, n))

\* C23: stop_watcher does not interrupt a poll cycle: when the watcher task
\* has ended, every row of the last batch it fetched (the rows the watermark
\* was moved past) has been fanned out.
C23_StopIsCooperative ==
    watcher_pc = "stopped" => next_row > Len(new_rows)

HandlesOf(conns, uid) ==
    IF uid \in DOMAIN conns THEN { conns[uid][i].ws : i \in DOMAIN conns[uid] } ELSE {}

\* C24: a subscriber may hold several handles, and the unregistration done
\* when a socket's handler ends removes exactly that handle: the other handles
\* of the same subscriber and all handles of the other subscribers stay
\* registered, in their order, and for a handle that is not registered (its
\* subscriber unknown or not) the registry does not change.
C24_UnregisterExact ==
    [][\A w \in Sockets :
        (ws_state[w].st = "broken" /\ ws_state'[w].st = "closed") =>
            /\ \A uid \in Users :
                 HandlesOf(connections', uid) =
                    HandlesOf(connections, uid)
                        \ (IF uid = ws_state[w].user_id THEN {w} ELSE {})
            /\ \A uid \in DOMAIN connections' :
                 connections'[uid] = SelectSeq(connections[uid], LAMBDA c : c.ws # w)
            /\ ~Registered(connections, w) => connections' = connections]_vars

\* two handles of one subscriber were registered together (both were sent the
\* same delivery), one has been unregistered and the other is still there
C24_Witness ==
    \E w1, w2 \in Sockets :
        /\ w1 # w2
        /\ ws_state[w1].st = "closed"
        /\ ws_state[w2].user_id = ws_state[w1].user_id
        /\ sent[w1] # <<>> /\ sent[w2] # <<>> /\ sent[w1][1] = sent[w2][1]
        /\ ~Registered(connections, w1)
        /\ Registered(connections, w2)

\* an unregistration of a handle that is not registered
C24_WitnessUnknown ==
    \E w \in Sockets :
        /\ ws_state[w].st = "broken"
        /\ ~Registered(connections, w)

\* the authorization the route gate is to compute: a row of today's route or
\* the main warehouse
IsAuthorized(driver_id, warehouse_id) ==
    warehouse_id \in driver_routes[driver_id] \/ warehouse_id = MainWarehouse

\* C25: in the fanout of a delivery, a driver's connection that can be written
\* to (and whose route lookup did not fail) is sent the event exactly when the
\* delivery's source or destination is authorized for the driver: it is in the
\* driver's route rows of today or it is the main warehouse, selection or not.
C25_RouteGateNotifies ==
    [][Fanout =>
        \A e \in Snapshot :
            LET c == e[2]
                n == new_rows[next_row]
            IN  (c.role.value = "driver" /\ ws_state[c.ws].st = "open"
                    /\ Registered(connections', c.ws))
                => ((sent'[c.ws] = Append(sent[c.ws], n))
                        <=> (IsAuthorized(e[1], deliveries[n].source_id)
                                \/ IsAuthorized(e[1], deliveries[n].destination_id)))]_vars

\* C26: a ScanEvent appended by a scan answered 200 is attributed to the
\* actor's own warehouse when the actor is a manager, and otherwise to the
\* delivery's source for source_pick and to its destination for dest_arrival
\* and dest_receive.
C26_Attribution ==
    [][\A p \in Procs :
        (ScanCommitted(p) /\ Len(scan_events') = Len(scan_events) + 1)
        => Last(scan_events').warehouse_id =
              IF UserRow(req[p].user).role.value = "manager"
              THEN UserRow(req[p].user).warehouse_id
              ELSE IF req[p].stage.value = "source_pick"
              THEN deliveries[loc[p].delivery].source_id
              ELSE deliveries[loc[p].delivery].destination_id]_vars

\* C27: a scan answered 200 appends exactly one audit_log entry of type scan
\* whose details are the stage and the increment applied, which is
\* max(0, min(total + count, expected) - total) for the total the handler read
\* (0 for a no-op); it appends exactly one ScanEvent with that count when the
\* increment is > 0 and none when it is 0.  The requested count itself is
\* recorded nowhere.
C27_ScanRecords ==
    [][\A p \in Procs :
        ScanCommitted(p) =>
            LET inc == Max(0, Min(loc[p].total + req[p].count, loc[p].expected) - loc[p].total)
            IN  /\ audit_log' = Append(audit_log,
                        [event_type |-> "scan", delivery_id |-> loc[p].delivery,
                         details |-> [stage |-> req[p].stage.value, count |-> inc]])
                /\ inc > 0 =>
                      /\ Len(scan_events') = Len(scan_events) + 1
                      /\ SubSeq(scan_events', 1, Len(scan_events)) = scan_events
                      /\ Last(scan_events').count = inc
                      /\ Last(scan_events').delivery_id = loc[p].delivery
                      /\ Last(scan_events').stage = req[p].stage.value
                /\ inc = 0 => scan_events' = scan_events]_vars

\* a scan whose requested count differs from the increment recorded: a no-op
\* scan of a positive count, recorded with 0, after a scan that left an event
C27_Witness ==
    /\ hist # <<>>
    /\ Last(hist).count > 0
    /\ Last(audit_log).event_type = "scan"
    /\ Last(audit_log).details.count = 0
    /\ scan_events # <<>>

\* C28: a scan answered 200 on (delivery d, stage s) changes no counter but
\* the one of (d, s) and nothing of a delivery but the status of d: the other
\* stages' counters of d and every other delivery's counters, status and
\* expected count are as before, whatever other scans are in flight.
C28_ScanFrame ==
    [][\A p \in Procs :
        ScanCommitted(p) =>
            /\ \A k \in DOMAIN scan_counters' \ {CounterKey(p)} :
                  k \in DOMAIN scan_counters /\ scan_counters'[k] = scan_counters[k]
            /\ DOMAIN scan_counters \subseteq DOMAIN scan_counters'
            /\ DOMAIN deliveries' = DOMAIN deliveries
            /\ \A n \in DOMAIN deliveries :
                  IF n = loc[p].delivery
                  THEN deliveries'[n] = [deliveries[n] EXCEPT !.status = deliveries'[n].status]
                  ELSE deliveries'[n] = deliveries[n]]_vars

\* a scan of one delivery has been committed and has raised its counter while
\* a scan of the other delivery is in flight
C28_Witness ==
    \E p, q \in Procs :
        /\ pc[p] = "done" /\ resp[p] = 200
        /\ hist # <<>>
        /\ pc[q] = "counted"
        /\ loc[q].delivery # Last(hist).delivery
        /\ scan_counters[<<Last(hist).delivery, Last(hist).stage>>] > 0

\* the actors a redirect is for: the manager of the delivery's source
\* warehouse for create_transfer, a supervisor for supervisor_transfer
MayRedirect(r) ==
    LET user == UserRow(r.user) IN
    IF r.op = "create_transfer"
    THEN user.role.value = "manager"
            /\ user.warehouse_id = deliveries[r.delivery_number].source_id
    ELSE user.role.value = "supervisor"

\* C29: a redirect of an existing delivery by such an actor is answered 200,
\* sets the status to redirected, adds one TransferOrder and one audit_log
\* entry and leaves the scan counters and events and the delivery's source,
\* destination and expected_packages as they were; by any other actor it is
\* answered 403 and changes nothing.
C29_Redirect ==
    [][\A op \in {"create_transfer", "supervisor_transfer"} :
        \A r \in TransferRequests(op) :
            LET n == r.delivery_number
                step == IF op = "create_transfer" THEN create_transfer(1, r)
                        ELSE supervisor_transfer(1, r)
            IN  (n \in DOMAIN deliveries /\ step) =>
                    IF MayRedirect(r)
                    THEN /\ resp'[1] = 200
                         /\ deliveries' = [deliveries EXCEPT ![n].status = "redirected"]
                         /\ Len(transfer_orders') = Len(transfer_orders) + 1
                         /\ Len(audit_log') = Len(audit_log) + 1
                         /\ scan_counters' = scan_counters
                         /\ scan_events' = scan_events
                    ELSE /\ resp'[1] = 403
                         /\ ledger' = ledger]_vars

\* C30: expected_packages is a positive integer fixed at creation: in every
\* reachable state each delivery's expected_packages is > 0 and is the value
\* its delivery_created audit entry records.
C30_ExpectedFixed ==
    \A n \in DOMAIN deliveries :
        /\ deliveries[n].expected_packages > 0
        /\ \A i \in DOMAIN audit_log :
              (audit_log[i].event_type = "delivery_created" /\ audit_log[i].delivery_id = n)
              => deliveries[n].expected_packages = audit_log[i].details.expected_packages

\* C31: delivery numbers are unique: in every reachable state no two rows of
\* deliveries carry the same number, and each number has exactly one
\* delivery_created audit entry; so a creation with a number that exists adds
\* neither a row nor an entry, and of two concurrent creations of one number
\* at most one succeeds.
C31_UniqueNumbers ==
    /\ DOMAIN delivery_rows = DOMAIN deliveries
    /\ \A n \in DOMAIN delivery_rows :
          /\ delivery_rows[n] = 1
          /\ Cardinality({ i \in DOMAIN audit_log :
                            /\ audit_log[i].event_type = "delivery_created"
                            /\ audit_log[i].delivery_id = n }) = 1

\* a creation has passed the check of the number, and the number has been
\* committed by the other request meanwhile
C31_Witness ==
    \E p, q \in Procs :
        /\ pc[p] = "creating"
        /\ req[p].delivery_number \in DOMAIN delivery_rows
        /\ pc[q] = "done" /\ resp[q] = 200

\* C32: the manual scan applies the lifecycle function of the scan endpoint:
\* for every delivery of a reachable state, every stage whose gate lets a scan
\* through in the delivery's status, and every count, scan_delivery and
\* supervisor_manual_scan compute the same counter total and leave the same
\* status, an increment of 0 included.
C32_SameLifecycle ==
    \A n \in DOMAIN deliveries : \A s \in StageNames : \A c \in Counts :
        LET d == deliveries[n]
            total == IF <<n, s>> \in DOMAIN scan_counters THEN scan_counters[<<n, s>>] ELSE 0
            new_total == NewTotal(total, c, d.expected_packages)
            increment == Increment(total, new_total)
        IN  ~GateFails(SchemaStage(s), d.status) =>
                ScanStatus(SchemaStage(s), d.status, new_total, d.expected_packages, increment)
                    = ManualStatus(ScanStage(s), d.status, new_total, d.expected_packages)

\* the place of a status in the lifecycle order (redirected is outside it)
Rank(status) ==
    CASE status = "created" -> 0
      [] status = "partial_pick" -> 1
      [] status = "picked" -> 2
      [] status = "arrived" -> 3
      [] status = "partial_receive" -> 4
      [] status = "received" -> 5
      [] OTHER -> 6

\* C33: under scans alone no delivery's status moves backwards in the order
\* created < partial_pick < picked < arrived < partial_receive < received,
\* and no counter total decreases.
C33_Monotonic ==
    [][/\ \A n \in DOMAIN deliveries :
            Rank(deliveries'[n].status) >= Rank(deliveries[n].status)
       /\ \A k \in DOMAIN scan_counters :
            k \in DOMAIN scan_counters' /\ scan_counters'[k] >= scan_counters[k]]_vars

\* C34: notify_moysklad is called for picked or received only by a step that
\* commits the delivery's transition into that status, and at most once per
\* delivery and status.
C34_SyncOnce ==
    [][\A k \in DOMAIN moysklad' :
        (k \notin DOMAIN moysklad \/ moysklad'[k] # moysklad[k]) =>
            /\ moysklad'[k] = 1
            /\ deliveries'[k[1]].status = k[2]
            /\ deliveries[k[1]].status # k[2]]_vars

\* C35: through the scan endpoint at most one dest_arrival scan of a delivery
\* is applied with a positive increment: the audit_log holds at most one scan
\* entry of stage dest_arrival and count > 0 per delivery, concurrent
\* dest_arrival scans included.
C35_OneArrival ==
    \A n \in DOMAIN deliveries :
        Cardinality({ i \in DOMAIN audit_log :
                        /\ audit_log[i].event_type = "scan"
                        /\ audit_log[i].delivery_id = n
                        /\ audit_log[i].details.stage = "dest_arrival"
                        /\ audit_log[i].details.count > 0 }) <= 1

\* C36: in every reachable state a subscriber id is a key of connections
\* exactly when it has a registered handle: no key maps to an empty list, and
\* every handle under a key is a socket that this user's handler has
\* registered and not yet unregistered.
C36_NoEmptyKey ==
    /\ \A uid \in DOMAIN connections : connections[uid] # <<>>
    /\ \A uid \in Users :
          uid \in DOMAIN connections <=> HandlesOf(connections, uid) # {}
    /\ \A uid \in DOMAIN connections : \A i \in DOMAIN connections[uid] :
          /\ ws_state[connections[uid][i].ws].user_id = uid
          /\ ws_state[connections[uid][i].ws].st \in {"open", "broken"}

\* a subscriber's last handle has been unregistered, by its handler and by the
\* watcher, while another subscriber is still registered
C36_Witness ==
    \E w1, w2 \in Sockets :
        /\ ws_state[w1].st = "closed"
        /\ ws_state[w1].user_id \notin DOMAIN connections
        /\ ws_state[w2].st = "open"
        /\ ws_state[w2].user_id = "drv"
        /\ "drv" \notin DOMAIN connections
        /\ connections = <<>>

====
